---------------------------- MODULE Spec2Model ----------------------------
(***************************************************************************)
(* Model of the operational state aggregator of Alfred Mission Control     *)
(* (src/app.py): path resolution, snapshot load, log tail, the TTL cache   *)
(* placed in front of both loaders by @st.cache_data(ttl=10), the          *)
(* accessors, and the pages that derive figures from the loaded data.      *)
(***************************************************************************)
EXTENDS Integers, Sequences, FiniteSets, TLC

VARIABLES
    WORKSPACE_PATH,  \* the configured workspace root, "" when not configured
    disk,            \* disk[root][filename]: the state of each data file
    cache,           \* cache[key]: the entry st.cache_data holds for a loader call
    hist,            \* hist[key]: what happened to the key since its last file read
    ret,             \* the outcome of the last dashboard operation
    pc               \* the position of the script run or loader call in progress

vars == <<WORKSPACE_PATH, disk, cache, hist, ret, pc>>

(***************************************************************************)
(* Bounds of the model.                                                    *)
(***************************************************************************)
MaxLines   == 3   \* longest log file drawn for the tail specification
MaxLimit   == 2   \* largest tail limit drawn for a direct load_jsonl_file call
MaxEvents  == 3   \* longest sub-agent log drawn for the page specification
MaxLogLen  == 1   \* longest log the producer builds in the cache specification
MaxFeed    == 3   \* longest activity feed drawn for the activity specification
MaxRunSeconds == 1   \* longest time one script run takes, in seconds
MaxExtra   == 2   \* most lines a drawn log holds before the lines of a full window

(***************************************************************************)
(* Program constants.                                                      *)
(***************************************************************************)
TTL           == 10    \* @st.cache_data(ttl=10)
SubagentLimit == 50    \* get_subagent_tasks: limit=50
ActivityLimit == 100   \* get_activity_feed: limit=100

Min(a, b) == IF a < b THEN a ELSE b
Max(a, b) == IF a > b THEN a ELSE b

(***************************************************************************)
(* JSON values.  A value is a record tagged by t; a dict carries its items *)
(* as further fields, so the empty dict is the record with the tag only.   *)
(***************************************************************************)
None      == [t |-> "None"]
EmptyDict == [t |-> "dict"]
NonDict   == [t |-> "int", v |-> 5]
NoneKey   == "<None>"   \* what t.get(k) yields as a string when k is missing

IsDict(v) == v.t = "dict"

\* d.get(k, default) of a dict
DictGet(d, k, default) == IF k \in DOMAIN d THEN d[k] ELSE default

\* a JSON array and a JSON string
List(items) == [t |-> "list", items |-> items]
Str(v)      == [t |-> "str", v |-> v]

\* Python truthiness of a parsed JSON value
Truthy(v) ==
    CASE v.t = "None" -> FALSE
      [] v.t = "dict" -> DOMAIN v # {"t"}
      [] v.t = "int"  -> v.v # 0
      [] v.t = "list" -> v.items # <<>>
      [] v.t = "str"  -> v.v # ""
      [] OTHER        -> TRUE

\* a sub-agent task event as the producer logs it
Ev(e, k) == [t |-> "dict", event |-> e, session_key |-> k]

(***************************************************************************)
(* Text.  A line of a log, or the whole text of a snapshot file, is blank, *)
(* malformed, or the serialisation of a JSON value; or its bytes are no    *)
(* text in the encoding open() decodes with.                               *)
(***************************************************************************)
BlankLine     == [tag |-> "blank"]
MalformedLine == [tag |-> "malformed"]
JsonLine(d)   == [tag |-> "json", doc |-> d]
Undecodable   == [tag |-> "undecodable"]

\* line.strip(): the empty string (falsy) exactly for a blank line
Strip(line) == line.tag # "blank"

\* json.loads(text): the value, or a JSONDecodeError
JsonLoads(text) ==
    IF text.tag = "json" THEN [ok |-> TRUE, doc |-> text.doc]
    ELSE [ok |-> FALSE]

(***************************************************************************)
(* Files.                                                                  *)
(***************************************************************************)
Roots == {"workspace", "local"}

Absent     == [kind |-> "absent"]
Unreadable == [kind |-> "unreadable"]          \* exists, open() fails
Snapshot(text) == [kind |-> "file", content |-> text]
Log(lines)     == [kind |-> "file", content |-> lines]

StatusFile    == "status.json"
SessionsFile  == "sessions.json"
SubagentLog   == "subagent-log.jsonl"
ActivityLog   == "activity-feed.jsonl"
CronFile      == "cron-jobs.json"
DeliverablesFile == "deliverables.json"

\* f"history_{session_key}.json" for the session keys of the model
SessionKeys   == {"main", "ENOENT"}
HistoryFile(session_key) == "history_" \o session_key \o ".json"

JsonFileNames == {StatusFile, SessionsFile, CronFile, DeliverablesFile}
                     \cup {HistoryFile(k) : k \in SessionKeys}
FileNames     == JsonFileNames \cup {SubagentLog, ActivityLog}

NoPath == [root |-> "None", name |-> "None"]

\* a plausible slip: the local candidate is tried first
get_data_path_local_first(d, wp, filename) ==
    IF d["local"][filename].kind # "absent"
    THEN [root |-> "local", name |-> filename]
    ELSE IF wp # "" /\ d["workspace"][filename].kind # "absent"
         THEN [root |-> "workspace", name |-> filename]
         ELSE NoPath

\* get_data_path: the workspace candidate first, then the local one
get_data_path(d, wp, filename) ==
    IF wp # "" /\ d["workspace"][filename].kind # "absent"
    THEN [root |-> "workspace", name |-> filename]
    ELSE IF d["local"][filename].kind # "absent"
         THEN [root |-> "local", name |-> filename]
         ELSE NoPath

(***************************************************************************)
(* Exceptions of open() and of the read.  str(e) of an OSError is the      *)
(* error text followed by the path; the handlers of both loaders look for  *)
(* two substrings in it.                                                   *)
(***************************************************************************)
FileNotFoundError(filename) ==
    [type |-> "FileNotFoundError", strerror |-> "No such file or directory",
     filename |-> filename]
PermissionError(filename) ==
    [type |-> "PermissionError", strerror |-> "Permission denied",
     filename |-> filename]
UnicodeDecodeError ==
    [type |-> "UnicodeDecodeError", strerror |-> "codec can't decode byte",
     filename |-> ""]
NoException == [type |-> "none"]

\* the needles of the handlers that occur in a string of the model
Substrings(text) ==
    CASE text = "No such file or directory" -> {"No such file"}
      [] text = HistoryFile("ENOENT")       -> {"ENOENT"}
      [] OTHER                              -> {}

\* needle in str(e)
InStr(needle, e) == needle \in Substrings(e.strerror) \cup Substrings(e.filename)

\* a plausible slip: every exception is reported
st_error_always(e) == TRUE

\* if "ENOENT" not in str(e) and "No such file" not in str(e): st.error(...)
st_error(e) == ~InStr("ENOENT", e) /\ ~InStr("No such file", e)

\* with open(full_path) as f: the exception open() raises, if any
OpenRaises(f, filename) ==
    CASE f.kind = "absent"     -> FileNotFoundError(filename)
      [] f.kind = "unreadable" -> PermissionError(filename)
      [] OTHER                 -> NoException

(***************************************************************************)
(* load_json_file: the body behind the cache.  value is what it returns,   *)
(* error whether st.error was called.                                      *)
(***************************************************************************)
\* a plausible slip: a document that does not parse is reported to the user
json_load_reporting(f, filename) ==
    IF OpenRaises(f, filename).type # "none"
    THEN [value |-> None, error |-> st_error(OpenRaises(f, filename))]
    ELSE IF f.content.tag = "undecodable"
         THEN [value |-> None, error |-> st_error(UnicodeDecodeError)]
         ELSE IF JsonLoads(f.content).ok
              THEN [value |-> JsonLoads(f.content).doc, error |-> FALSE]
              ELSE [value |-> None, error |-> TRUE]

\* with open(full_path) as f: return json.load(f), and the two handlers
json_load(f, filename) ==
    IF OpenRaises(f, filename).type # "none"
    THEN [value |-> None, error |-> st_error(OpenRaises(f, filename))]
    ELSE IF f.content.tag = "undecodable"
         THEN [value |-> None, error |-> st_error(UnicodeDecodeError)]
         ELSE IF JsonLoads(f.content).ok
              THEN [value |-> JsonLoads(f.content).doc, error |-> FALSE]
              ELSE [value |-> None, error |-> FALSE]  \* except JSONDecodeError

load_json_file(d, wp, filename) ==
    LET full_path == get_data_path(d, wp, filename) IN
    IF full_path = NoPath
    THEN [value |-> None, error |-> FALSE]
    ELSE json_load(d[full_path.root][filename], filename)

(***************************************************************************)
(* load_jsonl_file: the body behind the cache.                             *)
(***************************************************************************)
\* lines[-limit:], with Python's normalisation of the slice start
SliceLast(lines, limit) ==
    LET n     == Len(lines)
        start == IF -limit < 0 THEN Max(n - limit, 0) ELSE Min(-limit, n)
    IN  SubSeq(lines, start + 1, n)

\* a plausible slip: the window is one line too long
RecentOneMore(lines, limit) ==
    IF Len(lines) > limit THEN SliceLast(lines, limit + 1) ELSE lines

\* a plausible slip: the window taken from the head of the file
RecentFromHead(lines, limit) ==
    IF Len(lines) > limit THEN SubSeq(lines, 1, limit) ELSE lines

\* recent = lines[-limit:] if len(lines) > limit else lines
Recent(lines, limit) ==
    IF Len(lines) > limit THEN SliceLast(lines, limit) ELSE lines

\* the lines of the window that pass `if line.strip()` and reach json.loads
Retained(lines, limit) == SelectSeq(Recent(lines, limit), Strip)

\* the for loop over recent: a line is appended to result when it passes
\* `if line.strip()` and json.loads does not raise; the others are skipped
Appended(line) == Strip(line) /\ JsonLoads(line).ok

ParseLoop(recent, result) ==
    LET lines == SelectSeq(recent, Appended)
    IN  result \o [j \in 1..Len(lines) |-> JsonLoads(lines[j]).doc]

\* a plausible slip: no inner try, so a malformed line aborts the tail and the
\* outer handler returns []
ParseAborting(recent) ==
    IF \E i \in 1..Len(recent) : Strip(recent[i]) /\ ~JsonLoads(recent[i]).ok
    THEN <<>>
    ELSE ParseLoop(recent, <<>>)

\* result = [] ... return result
ParseRecent(recent) == ParseLoop(recent, <<>>)

\* with open(full_path) as f: lines = f.readlines() ... return result, and
\* the outer handler; readlines decodes the whole file before any line is parsed
read_tail(f, filename, limit) ==
    IF OpenRaises(f, filename).type # "none"
    THEN [value |-> <<>>, error |-> st_error(OpenRaises(f, filename)),
          retained |-> <<>>]
    ELSE IF \E i \in 1..Len(f.content) : f.content[i].tag = "undecodable"
         THEN [value |-> <<>>, error |-> st_error(UnicodeDecodeError),
               retained |-> <<>>]
         ELSE [value    |-> ParseRecent(Recent(f.content, limit)),
               error    |-> FALSE,
               retained |-> Retained(f.content, limit)]

load_jsonl_file(d, wp, filename, limit) ==
    LET full_path == get_data_path(d, wp, filename) IN
    IF full_path = NoPath
    THEN [value |-> <<>>, error |-> FALSE, retained |-> <<>>]
    ELSE read_tail(d[full_path.root][filename], filename, limit)

(***************************************************************************)
(* The cache of @st.cache_data(ttl=10): one entry per (function,           *)
(* arguments).  An entry carries the age of its value instead of the time  *)
(* it was stored at; the clock advancing ages every entry.                 *)
(***************************************************************************)
JsonKey(filename)         == [func |-> "load_json_file", filename |-> filename, limit |-> 0]
JsonlKey(filename, limit) == [func |-> "load_jsonl_file", filename |-> filename, limit |-> limit]

JsonKeys  == {JsonKey(filename) : filename \in JsonFileNames}
JsonlKeys == {JsonlKey(SubagentLog, l) : l \in (1..MaxLimit) \cup {SubagentLimit}}
                 \cup {JsonlKey(ActivityLog, ActivityLimit)}
CacheKeys == JsonKeys \cup JsonlKeys

\* ages saturate one second past the TTL: an older entry is expired all the same
MaxAge == TTL + 1

NoEntry == [present |-> FALSE]
Entry(out) == [present |-> TRUE, value |-> out.value, error |-> out.error, age |-> 0]

\* a plausible slip: the entry never expires
CacheHitForever(entry) == entry.present

\* an entry is served while less than ttl seconds old
CacheHit(entry) == entry.present /\ entry.age < TTL

\* a plausible slip: a stored not-found result is served whatever its age
LookupKeepingNone(c, k, fresh) ==
    IF c[k].present /\ (c[k].age < TTL \/ c[k].value = None)
    THEN [read |-> FALSE, value |-> c[k].value, error |-> c[k].error]
    ELSE [read |-> TRUE, value |-> fresh.value, error |-> fresh.error]

\* the cached function: the stored value on a hit, else the body's result, stored
Lookup(c, k, fresh) ==
    IF CacheHit(c[k])
    THEN [read |-> FALSE, value |-> c[k].value, error |-> c[k].error]
    ELSE [read |-> TRUE, value |-> fresh.value, error |-> fresh.error]

\* a plausible slip: the result is never stored, every call reads the file
StoreNothing(c, k, out) == c

Store(c, k, out) == IF out.read THEN [c EXCEPT ![k] = Entry(out)] ELSE c

\* history of a key: the last read of its file, and what happened since
NeverLoaded == [loaded |-> FALSE, since |-> 0, cleared |-> FALSE]
Cleared     == [loaded |-> FALSE, since |-> 0, cleared |-> TRUE]
Loaded(v)   == [loaded |-> TRUE, since |-> 0, cleared |-> FALSE, value |-> v]

Record(h, k, out) == IF out.read THEN [h EXCEPT ![k] = Loaded(out.value)] ELSE h

EmptyCache == [k \in CacheKeys |-> NoEntry]
NoHistory  == [k \in CacheKeys |-> NeverLoaded]
EmptyDisk  == [r \in Roots |-> [f \in FileNames |-> Absent]]
Idle       == [op |-> "none"]

\* no script run and no loader call is in progress
NotRunning == [at |-> "none"]

(***************************************************************************)
(* Accessors: what each makes of the loader's result.                      *)
(***************************************************************************)
DefaultStatus ==
    [t |-> "dict", online |-> TRUE, last_activity |-> "now",
     active_sessions |-> 0, running_subagents |-> 0]

\* a plausible slip: the default reports the agent offline
get_agent_status_offline(status_file) ==
    IF Truthy(status_file) THEN status_file
    ELSE [DefaultStatus EXCEPT !.online = FALSE]

\* get_agent_status: the document when it is truthy, else the default
get_agent_status(status_file) ==
    IF Truthy(status_file) THEN status_file ELSE DefaultStatus

\* get_sessions: sessions_file.get("sessions", []); .get raises on a non-dict
get_sessions(sessions_file) ==
    IF Truthy(sessions_file)
    THEN IF IsDict(sessions_file)
         THEN [value |-> DictGet(sessions_file, "sessions", <<>>), raised |-> FALSE]
         ELSE [value |-> <<>>, raised |-> TRUE]
    ELSE [value |-> <<>>, raised |-> FALSE]

(***************************************************************************)
(* page_subagents: running and completed tasks out of the task events.     *)
(***************************************************************************)
EventOf(t) == DictGet(t, "event", NoneKey)
KeyOf(t)   == DictGet(t, "session_key", NoneKey)

spawned_keys(tasks) ==
    {KeyOf(tasks[i]) : i \in {j \in 1..Len(tasks) : EventOf(tasks[j]) = "spawned"}}
completed_keys(tasks) ==
    {KeyOf(tasks[i]) : i \in {j \in 1..Len(tasks) : EventOf(tasks[j]) = "completed"}}

\* a plausible slip: the completions are not subtracted
running_keys_all_spawned(tasks) == spawned_keys(tasks)

\* a plausible slip: a key is running when its latest spawn comes after its
\* latest completion
running_keys_by_last_event(tasks) ==
    {k \in spawned_keys(tasks) :
        \E i \in 1..Len(tasks) :
            /\ EventOf(tasks[i]) = "spawned" /\ KeyOf(tasks[i]) = k
            /\ \A j \in 1..Len(tasks) :
                   (EventOf(tasks[j]) = "completed" /\ KeyOf(tasks[j]) = k) => j < i}

running_keys(tasks) == spawned_keys(tasks) \ completed_keys(tasks)

IsRunning(tasks, t) == EventOf(t) = "spawned" /\ KeyOf(t) \in running_keys(tasks)

\* a plausible slip: every event of a running key is listed, spawned or not
running_any_event(tasks) ==
    LET Keep(t) == KeyOf(t) \in running_keys(tasks) IN SelectSeq(tasks, Keep)

running(tasks) ==
    LET Keep(t) == IsRunning(tasks, t) IN SelectSeq(tasks, Keep)

\* a plausible slip: completions without a spawn in the window are dropped
completed_of_spawned(tasks) ==
    LET Keep(t) == EventOf(t) = "completed" /\ KeyOf(t) \in spawned_keys(tasks)
    IN  SelectSeq(tasks, Keep)

\* a plausible slip: the list is turned most recent first here, not by the caller
completed_most_recent_first(tasks) ==
    LET Keep(t) == EventOf(t) = "completed"
        c       == SelectSeq(tasks, Keep)
    IN  [i \in 1..Len(c) |-> c[Len(c) + 1 - i]]

completed(tasks) ==
    LET Keep(t) == EventOf(t) = "completed" IN SelectSeq(tasks, Keep)

\* t.get raises AttributeError on a record that is not a dict
AllDicts(seq) == \A i \in 1..Len(seq) : IsDict(seq[i])

page_subagents ==
    LET k     == JsonlKey(SubagentLog, SubagentLimit)
        fresh == load_jsonl_file(disk, WORKSPACE_PATH, SubagentLog, SubagentLimit)
        out   == Lookup(cache, k, fresh)
        tasks == out.value
    IN  /\ cache' = Store(cache, k, out)
        /\ hist'  = Record(hist, k, out)
        /\ ret'   = IF AllDicts(tasks)
                    THEN [op |-> "page_subagents", raised |-> FALSE, tasks |-> tasks,
                          running_keys |-> running_keys(tasks),
                          running |-> running(tasks),
                          completed |-> completed(tasks),
                          running_count |-> Len(running(tasks)),
                          completed_count |-> Len(completed(tasks)),
                          key |-> k, read |-> out.read, loaded |-> out.value,
                          before |-> hist[k], fresh |-> fresh.value]
                    ELSE [op |-> "page_subagents", raised |-> TRUE, tasks |-> tasks,
                          key |-> k, read |-> out.read, loaded |-> out.value,
                          before |-> hist[k], fresh |-> fresh.value]
        /\ UNCHANGED <<WORKSPACE_PATH, disk>>

\* the Agents tab rendered outside a modelled script run
PageSubagents == page_subagents /\ UNCHANGED pc

(***************************************************************************)
(* get_agent_status called on its own.                                     *)
(***************************************************************************)
\* a plausible slip: the default status is written out when no file is found
GetAgentStatusWritingDefault ==
    LET k     == JsonKey(StatusFile)
        fresh == load_json_file(disk, WORKSPACE_PATH, StatusFile)
        out   == Lookup(cache, k, fresh)
    IN  /\ cache' = Store(cache, k, out)
        /\ hist'  = Record(hist, k, out)
        /\ ret'   = [op |-> "get_agent_status", key |-> k, read |-> out.read,
                     loaded |-> out.value, value |-> get_agent_status(out.value),
                     error |-> out.error, raised |-> FALSE,
                     before |-> hist[k], fresh |-> fresh.value]
        /\ disk'  = IF get_data_path(disk, WORKSPACE_PATH, StatusFile) = NoPath
                    THEN [disk EXCEPT !["local"][StatusFile] =
                              Snapshot(JsonLine(DefaultStatus))]
                    ELSE disk
        /\ UNCHANGED <<WORKSPACE_PATH, pc>>

GetAgentStatus ==
    LET k     == JsonKey(StatusFile)
        fresh == load_json_file(disk, WORKSPACE_PATH, StatusFile)
        out   == Lookup(cache, k, fresh)
    IN  /\ cache' = Store(cache, k, out)
        /\ hist'  = Record(hist, k, out)
        /\ ret'   = [op |-> "get_agent_status", key |-> k, read |-> out.read,
                     loaded |-> out.value, value |-> get_agent_status(out.value),
                     error |-> out.error, raised |-> FALSE,
                     before |-> hist[k], fresh |-> fresh.value]
        /\ UNCHANGED <<WORKSPACE_PATH, disk, pc>>

(***************************************************************************)
(* page_home: status, sessions and activity, then the metrics row.  An     *)
(* AttributeError of a .get on a value that is no dict ends the page where *)
(* it happens; the loads made before it stay in the cache.                 *)
(***************************************************************************)
\* subagent_count = status.get("running_subagents", 0)
subagent_count(status) == DictGet(status, "running_subagents", 0)

active_count(sessions) ==
    Cardinality({i \in 1..Len(sessions) : DictGet(sessions[i], "status", NoneKey) = "active"})

page_home ==
    LET kS   == JsonKey(StatusFile)
        kE   == JsonKey(SessionsFile)
        kA   == JsonlKey(ActivityLog, ActivityLimit)
        oS   == Lookup(cache, kS, load_json_file(disk, WORKSPACE_PATH, StatusFile))
        c1   == Store(cache, kS, oS)
        h1   == Record(hist, kS, oS)
        oE   == Lookup(c1, kE, load_json_file(disk, WORKSPACE_PATH, SessionsFile))
        c2   == Store(c1, kE, oE)
        h2   == Record(h1, kE, oE)
        oA   == Lookup(c2, kA, load_jsonl_file(disk, WORKSPACE_PATH, ActivityLog, ActivityLimit))
        c3   == Store(c2, kA, oA)
        h3   == Record(h2, kA, oA)
        status   == get_agent_status(oS.value)
        sessions == get_sessions(oE.value)
        activity == oA.value
        shown    == SliceLast(activity, 10)
        next_task == DictGet(status, "next_scheduled_task", EmptyDict)
    IN  /\ UNCHANGED <<WORKSPACE_PATH, disk>>
        /\ IF sessions.raised
           THEN /\ cache' = c2
                /\ hist'  = h2
                /\ ret'   = [op |-> "page_home", raised |-> TRUE]
           ELSE /\ cache' = c3
                /\ hist'  = h3
                /\ ret'   =
                     IF /\ IsDict(status)
                        /\ AllDicts(sessions.value)
                        /\ IsDict(next_task)
                        /\ AllDicts(shown)
                     THEN [op |-> "page_home", raised |-> FALSE,
                           online |-> DictGet(status, "online", FALSE),
                           active_count |-> active_count(sessions.value),
                           subagent_count |-> subagent_count(status),
                           shown_count |-> Len(shown)]
                     ELSE [op |-> "page_home", raised |-> TRUE]

\* the Home tab rendered outside a modelled script run
PageHome == page_home /\ UNCHANGED pc

(***************************************************************************)
(* A direct call load_jsonl_file(filename, limit) through the cache.       *)
(***************************************************************************)
LoadJsonlFile(filename, limit) ==
    LET k     == JsonlKey(filename, limit)
        fresh == load_jsonl_file(disk, WORKSPACE_PATH, filename, limit)
        out   == Lookup(cache, k, fresh)
    IN  /\ cache' = Store(cache, k, out)
        /\ hist'  = Record(hist, k, out)
        /\ ret'   = [op |-> "load_jsonl_file", key |-> k, read |-> out.read,
                     loaded |-> out.value, value |-> out.value,
                     error |-> out.error, raised |-> FALSE,
                     before |-> hist[k], fresh |-> fresh.value,
                     retained |-> IF out.read THEN fresh.retained ELSE <<>>]
        /\ UNCHANGED <<WORKSPACE_PATH, disk, pc>>

(***************************************************************************)
(* st.cache_data.clear(): the Refresh button of the home page and the      *)
(* Retry button of the error boundary.                                     *)
(***************************************************************************)
\* a plausible slip: only the snapshot loader's entries are dropped
clear_snapshots_only(c) ==
    [k \in CacheKeys |-> IF k.func = "load_json_file" THEN NoEntry ELSE c[k]]

\* st.cache_data.clear() drops the entries of every cached function
cache_data_clear(c) == [k \in CacheKeys |-> NoEntry]

Fresh(c) == {k \in CacheKeys : c[k].present /\ c[k].age < TTL}

ClearAll(button) ==
    /\ cache' = cache_data_clear(cache)
    /\ hist'  = [k \in CacheKeys |-> Cleared]
    /\ ret'   = [op |-> "clear", button |-> button, dropped |-> Fresh(cache)]
    /\ UNCHANGED <<WORKSPACE_PATH, disk, pc>>

\* page_home: if st.button("Refresh"): st.cache_data.clear(); st.rerun()
HomeRefresh == ClearAll("Refresh")

\* main: the button shown once _main_content has raised
Retry == "raised" \in DOMAIN ret /\ ret.raised /\ ClearAll("Retry")

(***************************************************************************)
(* The clock: a second passes; every entry and every read grows older.     *)
(***************************************************************************)
tick ==
    /\ \E k \in CacheKeys : hist[k].loaded /\ hist[k].since < MaxAge
    /\ cache' = [k \in CacheKeys |->
                    IF cache[k].present
                    THEN [cache[k] EXCEPT !.age = Min(@ + 1, MaxAge)]
                    ELSE cache[k]]
    /\ hist'  = [k \in CacheKeys |->
                    IF hist[k].loaded
                    THEN [hist[k] EXCEPT !.since = Min(@ + 1, MaxAge)]
                    ELSE hist[k]]
    /\ ret' = Idle
    /\ UNCHANGED <<WORKSPACE_PATH, disk>>

\* a second passes while no script run is modelled
Tick == tick /\ UNCHANGED pc

(***************************************************************************)
(* The producer: the external process that owns the data files.  It        *)
(* rewrites the status snapshot (a reader may see it torn), appends to the *)
(* sub-agent log and may delete either file.                               *)
(***************************************************************************)
ProducerRoot == IF WORKSPACE_PATH # "" THEN "workspace" ELSE "local"

ProducerPut(filename, f) ==
    /\ disk[ProducerRoot][filename] # f
    /\ disk' = [disk EXCEPT ![ProducerRoot][filename] = f]
    /\ ret' = Idle
    /\ UNCHANGED <<WORKSPACE_PATH, cache, hist, pc>>

ProducerWriteStatus == ProducerPut(StatusFile, Snapshot(JsonLine([t |-> "dict",
                           online |-> FALSE, last_activity |-> "t1",
                           active_sessions |-> 1, running_subagents |-> 1])))

ProducerTornStatus == ProducerPut(StatusFile, Snapshot(MalformedLine))

ProducerDelete(filename) == ProducerPut(filename, Absent)

ProducerLines == {JsonLine(Ev("spawned", "A")), JsonLine(NonDict)}

ProducerAppend(line) ==
    LET f     == disk[ProducerRoot][SubagentLog]
        lines == IF f.kind = "file" THEN f.content ELSE <<>>
    IN  /\ Len(lines) < MaxLogLen
        /\ ProducerPut(SubagentLog, Log(Append(lines, line)))

(***************************************************************************)
(* The tail specification: a log file of any lines, read with any limit.   *)
(***************************************************************************)
SeqsUpTo(S, n) == UNION {[1..m -> S] : m \in 0..n}

TailLines == {BlankLine, MalformedLine, JsonLine(NonDict),
              JsonLine(Ev("spawned", "A")), JsonLine(Ev("spawned", "B")),
              JsonLine(Ev("completed", "A"))}

InitTail ==
    /\ WORKSPACE_PATH = ""
    /\ \E f \in {Absent} \cup {Log(ls) : ls \in SeqsUpTo(TailLines, MaxLines)} :
           disk = [EmptyDisk EXCEPT !["local"][SubagentLog] = f]
    /\ cache = EmptyCache
    /\ hist = NoHistory
    /\ ret = Idle
    /\ pc = NotRunning

NextTail == \E limit \in 1..MaxLimit : LoadJsonlFile(SubagentLog, limit)

SpecTail == InitTail /\ [][NextTail]_vars

(***************************************************************************)
(* Claims about the log tail (SpecTail).                                   *)
(***************************************************************************)
TailFile   == disk["local"][SubagentLog]
TailCalled == ret.op = "load_jsonl_file" /\ TailFile.kind = "file"

WellFormed(line) == line.tag = "json"
AllWellFormed(lines) == \A i \in 1..Len(lines) : WellFormed(lines[i])
OneMalformed(lines) ==
    /\ Cardinality({i \in 1..Len(lines) : lines[i].tag = "malformed"}) = 1
    /\ \A i \in 1..Len(lines) : lines[i].tag \in {"malformed", "json"}

\* the elements of lines at the indices idx, in index order
PickAt(lines, idx) ==
    [j \in 1..Cardinality(idx) |->
        lines[CHOOSE i \in idx : Cardinality({x \in idx : x <= i}) = j]]

\* the indices of the last n physical lines
LastIdx(lines, n) == {i \in 1..Len(lines) : i > Len(lines) - n}

\* C1: with limit N >= 1 and a log of M well-formed non-blank lines, the call
\* returns exactly min(M, N) records, the records of the last min(M, N) lines,
\* in file order.
C1_TailLastRecords ==
    TailCalled =>
        LET lines == TailFile.content
            M     == Len(lines)
            N     == ret.key.limit
            n     == Min(M, N)
        IN  AllWellFormed(lines) =>
                /\ Len(ret.value) = n
                /\ \A i \in 1..n : ret.value[i] = lines[M - n + i].doc

C1_Witness ==
    /\ TailCalled
    /\ AllWellFormed(TailFile.content)
    /\ ret.key.limit >= 2
    /\ Len(TailFile.content) > ret.key.limit
    /\ Len(ret.value) = ret.key.limit
    /\ ret.value[1] # TailFile.content[1].doc

\* C2 as stated: with one malformed line among well-formed lines the call does
\* not raise and returns min(limit, number of well-formed lines) records.
C2_Original ==
    TailCalled =>
        LET lines == TailFile.content
            W     == Cardinality({i \in 1..Len(lines) : WellFormed(lines[i])})
        IN  OneMalformed(lines) =>
                /\ ~ret.raised
                /\ Len(ret.value) = Min(ret.key.limit, W)

\* C2 amended: with one malformed line among well-formed lines the call does
\* not raise and returns, in file order, the records of the well-formed lines
\* among the last min(limit, L) physical lines: min(limit, W) records when the
\* malformed line lies before that window, one fewer than the window holds
\* when it lies inside.
C2_TailSkipsMalformed ==
    TailCalled =>
        LET lines  == TailFile.content
            L      == Len(lines)
            N      == ret.key.limit
            W      == Cardinality({i \in 1..L : WellFormed(lines[i])})
            window == LastIdx(lines, Min(N, L))
            good   == {i \in window : WellFormed(lines[i])}
            bad    == CHOOSE i \in 1..L : lines[i].tag = "malformed"
        IN  OneMalformed(lines) =>
                /\ ~ret.raised
                /\ Len(ret.value) = Cardinality(good)
                /\ \A j \in 1..Len(ret.value) : ret.value[j] = PickAt(lines, good)[j].doc
                /\ Len(ret.value) = IF bad \in window THEN Min(N, L) - 1 ELSE Min(N, W)

C2_Witness ==
    /\ TailCalled
    /\ OneMalformed(TailFile.content)
    /\ Len(ret.value) >= 1
    /\ Len(ret.value) < Min(ret.key.limit,
                            Cardinality({i \in 1..Len(TailFile.content) :
                                            WellFormed(TailFile.content[i])}))

\* C3 as stated: the lines retained for parsing are exactly the last `limit`
\* non-blank lines of the file (all of them when there are at most `limit`);
\* blank lines take no slot of the window.
C3_BlankLinesTakeNoSlot ==
    (TailCalled /\ ret.read) =>
        LET lines    == TailFile.content
            nonblank == {i \in 1..Len(lines) : lines[i].tag # "blank"}
            n        == Min(ret.key.limit, Cardinality(nonblank))
            lastn    == {i \in nonblank : Cardinality({x \in nonblank : x >= i}) <= n}
        IN  /\ Len(ret.retained) = n
            /\ \A j \in 1..Len(ret.retained) : ret.retained[j] = PickAt(lines, lastn)[j]

(***************************************************************************)
(* The page specification: a sub-agent log and a status file of any        *)
(* content, read by the pages.                                             *)
(***************************************************************************)
StatusDoc(n) ==
    [t |-> "dict", online |-> FALSE, last_activity |-> "t0",
     active_sessions |-> 1, running_subagents |-> n]

SessionsDoc ==
    [t |-> "dict",
     sessions |-> << [t |-> "dict", key |-> "main", status |-> "active"],
                     [t |-> "dict", key |-> "A", status |-> "idle"] >>]

EventLines ==
    {JsonLine(Ev(e, k)) : e \in {"spawned", "completed"}, k \in {"A", "B"}}
        \cup {JsonLine(Ev("progress", "A")),
              JsonLine([t |-> "dict", event |-> "spawned"]),
              JsonLine(NonDict)}

StatusStates ==
    {Absent, Unreadable, Snapshot(MalformedLine), Snapshot(BlankLine)}
        \cup {Snapshot(JsonLine(d)) :
                d \in {None, EmptyDict, NonDict, StatusDoc(0), StatusDoc(2),
                       [t |-> "dict", online |-> TRUE]}}

FewStatusStates == {Absent, Snapshot(JsonLine(StatusDoc(2)))}

\* Logs of more than one line are drawn with the local root and two states of
\* the status file; every state of the status file and both roots are drawn
\* with the shorter logs.
InitPages ==
    /\ WORKSPACE_PATH \in {"", "/ws"}
    /\ \E root \in Roots, lines \in SeqsUpTo(EventLines, MaxEvents),
          sf \in StatusStates, ef \in {Absent, Snapshot(JsonLine(SessionsDoc))} :
           /\ root = IF WORKSPACE_PATH = "" THEN "local" ELSE "workspace"
           /\ Len(lines) > 1 =>
                  (WORKSPACE_PATH = "" /\ sf \in FewStatusStates /\ ef = Absent)
           /\ disk = [EmptyDisk EXCEPT
                        ![root][SubagentLog]  = Log(lines),
                        ![root][StatusFile]   = sf,
                        !["local"][SessionsFile] = ef,
                        !["local"][ActivityLog]  =
                            Log(<<JsonLine([t |-> "dict", type |-> "task_failed"])>>)]
    /\ cache = EmptyCache
    /\ hist = NoHistory
    /\ ret = Idle
    /\ pc = NotRunning

NextPages == PageSubagents \/ PageHome \/ GetAgentStatus

SpecPages == InitPages /\ [][NextPages]_vars

(***************************************************************************)
(* Claims about reconciliation and the figures of the pages (SpecPages).   *)
(***************************************************************************)
Reconciled == ret.op = "page_subagents" /\ ~ret.raised

HasEvent(tasks, e, k) ==
    \E i \in 1..Len(tasks) :
        /\ "event" \in DOMAIN tasks[i] /\ tasks[i].event = e
        /\ IF "session_key" \in DOMAIN tasks[i]
           THEN tasks[i].session_key = k ELSE k = NoneKey

KeyValues == {"A", "B", NoneKey}
SpawnedSet(tasks)   == {k \in KeyValues : HasEvent(tasks, "spawned", k)}
CompletedSet(tasks) == {k \in KeyValues : HasEvent(tasks, "completed", k)}

\* C4: the running key set is the set of keys with a spawned event minus the
\* set of keys with a completed event; [spawned:A, spawned:B, completed:A]
\* gives running = {B} and completed = [completed:A].
C4_RunningIsSetDifference ==
    Reconciled =>
        /\ \A k \in KeyValues :
               k \in ret.running_keys <=>
                   (HasEvent(ret.tasks, "spawned", k) /\ ~HasEvent(ret.tasks, "completed", k))
        /\ ret.running_keys \subseteq KeyValues
        /\ ret.tasks = <<Ev("spawned", "A"), Ev("spawned", "B"), Ev("completed", "A")>> =>
               (ret.running_keys = {"B"} /\ ret.completed = <<Ev("completed", "A")>>)

C4_Witness ==
    /\ Reconciled
    /\ ret.tasks = <<Ev("spawned", "A"), Ev("spawned", "B"), Ev("completed", "A")>>
    /\ ret.running_keys = {"B"}

\* C5: a key completed without a spawn in the window is not running and its
\* completed event is listed; task events raise no error; no events give an
\* empty running set and an empty completed list.
C5_CompletedWithoutSpawn ==
    (ret.op = "page_subagents" /\ AllDicts(ret.tasks)) =>
        /\ ~ret.raised
        /\ \A i \in 1..Len(ret.tasks) :
               LET t == ret.tasks[i] IN
               ("event" \in DOMAIN t /\ t.event = "completed"
                   /\ ~HasEvent(ret.tasks, "spawned", KeyOf(t))) =>
                   /\ KeyOf(t) \notin ret.running_keys
                   /\ \E j \in 1..Len(ret.completed) : ret.completed[j] = t
        /\ Len(ret.tasks) = 0 => (ret.running_keys = {} /\ Len(ret.completed) = 0)

C5_Witness ==
    /\ Reconciled
    /\ ret.tasks = <<Ev("completed", "B")>>
    /\ ret.running_keys = {}
    /\ ret.completed = <<Ev("completed", "B")>>

\* the status file and the sub-agent events of the page specification
PagesRoot     == IF WORKSPACE_PATH = "" THEN "local" ELSE "workspace"
StatusOnDisk  == disk[PagesRoot][StatusFile]
TasksOnDisk   ==
    load_jsonl_file(disk, WORKSPACE_PATH, SubagentLog, SubagentLimit).value
HoldsDoc(f)   == f.kind = "file" /\ f.content.tag = "json"

\* C6 as stated: the derived count of running sub-agents is |spawned keys| -
\* |completed keys|, is never negative, and is the figure the home page reports.
C6_Original ==
    /\ Reconciled =>
           /\ ret.running_count
                 = Cardinality(SpawnedSet(ret.tasks)) - Cardinality(CompletedSet(ret.tasks))
           /\ ret.running_count >= 0
    /\ (ret.op = "page_home" /\ ~ret.raised /\ AllDicts(TasksOnDisk)) =>
           ret.subagent_count = Len(running(TasksOnDisk))

\* C6 amended: the number of distinct running keys is |spawned keys - completed
\* keys| = |spawned keys| - |spawned keys that are also completed|; it is never
\* negative and never below |spawned keys| - |completed keys|, and equals it
\* when every completed key has a spawned event. The count page_subagents
\* reports is the number of spawned events of running keys, which is at least
\* the number of distinct running keys. The figure the home page reports is the
\* running_subagents field of the status document (0 when the document is
\* absent, unparsable, empty or lacks the field), not a count derived from
\* the log.
C6_RunningCount ==
    /\ Reconciled =>
           LET S == SpawnedSet(ret.tasks)
               C == CompletedSet(ret.tasks)
               n == Cardinality(ret.running_keys)
           IN  /\ n = Cardinality(S) - Cardinality(S \cap C)
               /\ n >= 0
               /\ n >= Cardinality(S) - Cardinality(C)
               /\ C \subseteq S => n = Cardinality(S) - Cardinality(C)
               /\ ret.running_count
                     = Cardinality({i \in 1..Len(ret.tasks) :
                                      \E k \in S \ C : 
                                         /\ "event" \in DOMAIN ret.tasks[i]
                                         /\ ret.tasks[i].event = "spawned"
                                         /\ KeyOf(ret.tasks[i]) = k})
               /\ ret.running_count >= n
    /\ (ret.op = "page_home" /\ ~ret.raised) =>
           ret.subagent_count =
               IF /\ HoldsDoc(StatusOnDisk)
                  /\ IsDict(StatusOnDisk.content.doc)
                  /\ "running_subagents" \in DOMAIN StatusOnDisk.content.doc
               THEN StatusOnDisk.content.doc.running_subagents
               ELSE 0

C6_Witness ==
    /\ Reconciled
    /\ ret.running_count = 2
    /\ Cardinality(ret.running_keys) = 1
    /\ Cardinality(CompletedSet(ret.tasks)) = 1

\* C10: with status.json absent or unparsable get_agent_status returns the
\* default status (online, no active sessions, no running sub-agents, the
\* current time as last activity); with a non-empty document it returns that
\* document unchanged; it never fails.
C10_DefaultStatus ==
    ret.op = "get_agent_status" =>
        /\ ~ret.raised
        /\ (StatusOnDisk.kind = "absent"
              \/ (StatusOnDisk.kind = "file" /\ StatusOnDisk.content.tag # "json")) =>
               /\ ret.value.online = TRUE
               /\ ret.value.active_sessions = 0
               /\ ret.value.running_subagents = 0
               /\ ret.value.last_activity = "now"
        /\ (HoldsDoc(StatusOnDisk)
              /\ IsDict(StatusOnDisk.content.doc)
              /\ DOMAIN StatusOnDisk.content.doc # {"t"}) =>
               ret.value = StatusOnDisk.content.doc

C10_Witness ==
    /\ ret.op = "get_agent_status"
    /\ StatusOnDisk = Snapshot(MalformedLine)
    /\ ret.value = DefaultStatus

(***************************************************************************)
(* The specification of the running dashboard: the producer writes, time   *)
(* passes, the dashboard reads through the cache and the user clears it.   *)
(***************************************************************************)
Init ==
    /\ WORKSPACE_PATH = "/ws"
    /\ disk = EmptyDisk
    /\ cache = EmptyCache
    /\ hist = NoHistory
    /\ ret = Idle
    /\ pc = NotRunning

Next ==
    \/ ProducerWriteStatus
    \/ ProducerTornStatus
    \/ \E f \in {StatusFile, SubagentLog} : ProducerDelete(f)
    \/ \E line \in ProducerLines : ProducerAppend(line)
    \/ Tick
    \/ GetAgentStatus
    \/ PageSubagents
    \/ HomeRefresh
    \/ Retry

Spec == Init /\ [][Next]_vars

(***************************************************************************)
(* Claims about the cache (Spec).                                          *)
(***************************************************************************)
Called == ret.op \in {"get_agent_status", "page_subagents"}

\* the file was read for this key less than TTL ago and nothing was cleared since
WithinTTL == ret.before.loaded /\ ret.before.since < TTL /\ ~ret.before.cleared

\* C7: a call made less than TTL after the call that read the file, with no
\* invalidation in between, returns the stored result and reads no file,
\* whatever the producer did to the file in the meantime.
C7_HitWithinTTL ==
    (Called /\ WithinTTL) =>
        /\ ~ret.read
        /\ ret.loaded = ret.before.value

C7_Witness ==
    /\ Called
    /\ WithinTTL
    /\ ret.before.since = TTL - 1
    /\ ~ret.read
    /\ ret.loaded # ret.fresh

\* C8: the first call made once TTL has elapsed since the entry was retrieved
\* runs the loader and replaces the entry with the new result, retrieved now;
\* so no call returns a value read from disk more than TTL earlier.
C8_ReloadAfterTTL ==
    Called =>
        /\ (ret.before.loaded /\ ret.before.since >= TTL) =>
               /\ ret.read
               /\ ret.loaded = ret.fresh
               /\ cache[ret.key].present
               /\ cache[ret.key].value = ret.fresh
               /\ cache[ret.key].age = 0
        /\ ~ret.read => (ret.before.loaded /\ ret.before.since <= TTL)

C8_Witness ==
    /\ Called
    /\ ret.before.loaded
    /\ ret.before.since = TTL
    /\ ret.read
    /\ ret.loaded # ret.before.value
    /\ cache[ret.key].age = 0

\* C9: the invalidate-all of Refresh and Retry empties the cache for every key
\* of both loaders; the next call for any key reads the file, however recently
\* the key was loaded.
C9_ClearDropsEverything ==
    /\ ret.op = "clear" => \A k \in CacheKeys : ~cache[k].present
    /\ (Called /\ ret.before.cleared) => (ret.read /\ ret.loaded = ret.fresh)

C9_Witness ==
    /\ ret.op = "clear"
    /\ ret.button = "Retry"
    /\ \E k1, k2 \in ret.dropped :
           k1.func = "load_json_file" /\ k2.func = "load_jsonl_file"
    /\ \A k \in CacheKeys : ~cache[k].present

(***************************************************************************)
(* page_activity: the Log tab.  The feed is filtered by the category the   *)
(* selectbox holds and shown most recent first.                            *)
(***************************************************************************)
FilterOptions == {"All", "Sessions", "Tasks", "Deliverables", "Errors"}

\* an activity event carrying a type, and one without the key
Typed(type) == [t |-> "dict", type |-> type]
Untyped     == [t |-> "dict", message |-> "m"]

\* a plausible slip: a failed task is not counted among the errors
type_map_without_failed(filter_option) ==
    CASE filter_option = "Sessions"     -> {"session_started", "session_ended"}
      [] filter_option = "Tasks"        -> {"task_started", "task_completed", "task_failed"}
      [] filter_option = "Deliverables" -> {"deliverable_created"}
      [] filter_option = "Errors"       -> {"error_occurred"}
      [] OTHER                          -> {}

\* allowed_types = type_map.get(filter_option, [])
type_map(filter_option) ==
    CASE filter_option = "Sessions"     -> {"session_started", "session_ended"}
      [] filter_option = "Tasks"        -> {"task_started", "task_completed", "task_failed"}
      [] filter_option = "Deliverables" -> {"deliverable_created"}
      [] filter_option = "Errors"       -> {"error_occurred", "task_failed"}
      [] OTHER                          -> {}

\* if filter_option != "All": activity = [e for e in activity if e.get("type") in allowed_types]
filter_activity(activity, filter_option) ==
    LET allowed(e) == DictGet(e, "type", NoneKey) \in type_map(filter_option)
    IN  IF filter_option # "All" THEN SelectSeq(activity, allowed) ELSE activity

\* reversed(activity)
Reversed(seq) == [i \in 1..Len(seq) |-> seq[Len(seq) + 1 - i]]

\* the page up to its Refresh button; e.get and event.get raise on an event
\* that is no JSON object
page_activity(filter_option) ==
    LET k     == JsonlKey(ActivityLog, ActivityLimit)
        fresh == load_jsonl_file(disk, WORKSPACE_PATH, ActivityLog, ActivityLimit)
        out   == Lookup(cache, k, fresh)
        activity == out.value
    IN  /\ cache' = Store(cache, k, out)
        /\ hist'  = Record(hist, k, out)
        /\ ret'   = IF AllDicts(activity)
                    THEN [op |-> "page_activity", raised |-> FALSE,
                          filter_option |-> filter_option, feed |-> activity,
                          filtered |-> filter_activity(activity, filter_option),
                          shown |-> Reversed(filter_activity(activity, filter_option)),
                          key |-> k, read |-> out.read, loaded |-> out.value]
                    ELSE [op |-> "page_activity", raised |-> TRUE,
                          filter_option |-> filter_option, feed |-> activity,
                          key |-> k, read |-> out.read, loaded |-> out.value]
        /\ UNCHANGED <<WORKSPACE_PATH, disk>>

\* the Log tab rendered outside a modelled script run
PageActivity(filter_option) == page_activity(filter_option) /\ UNCHANGED pc

(***************************************************************************)
(* The activity specification: an activity feed of any events, shown under *)
(* any category.                                                           *)
(***************************************************************************)
EventTypes == {"session_started", "session_ended", "task_started", "task_completed",
               "task_failed", "deliverable_created", "cron_executed", "error_occurred"}

FeedLines == {JsonLine(Typed(type)) : type \in EventTypes}
                 \cup {JsonLine(Untyped), JsonLine(NonDict)}

InitActivity ==
    /\ WORKSPACE_PATH = ""
    /\ \E ls \in SeqsUpTo(FeedLines, MaxFeed) :
           disk = [EmptyDisk EXCEPT !["local"][ActivityLog] = Log(ls)]
    /\ cache = EmptyCache
    /\ hist = NoHistory
    /\ ret = Idle
    /\ pc = NotRunning

NextActivity == \E filter_option \in FilterOptions : PageActivity(filter_option)

SpecActivity == InitActivity /\ [][NextActivity]_vars

(***************************************************************************)
(* Claims about the category filter (SpecActivity).                        *)
(***************************************************************************)
\* the events of the feed file, in file order
FeedOnDisk ==
    LET ls == disk["local"][ActivityLog].content
    IN  [i \in 1..Len(ls) |-> ls[i].doc]

\* the category's set of event types, as the claim lists them
CategoryTypes ==
    [Sessions     |-> {"session_started", "session_ended"},
     Tasks        |-> {"task_started", "task_completed", "task_failed"},
     Deliverables |-> {"deliverable_created"},
     Errors       |-> {"error_occurred", "task_failed"}]

Filtered == ret.op = "page_activity" /\ ~ret.raised

\* C11: under each of the categories Sessions, Tasks, Deliverables and Errors
\* the page keeps exactly the events of the feed whose type is in the
\* category's set, in their original relative order; under All it keeps the
\* feed unchanged.
C11_FilterByCategory ==
    Filtered =>
        LET feed == FeedOnDisk IN
        IF ret.filter_option = "All"
        THEN ret.filtered = feed
        ELSE LET keep == {i \in 1..Len(feed) :
                             /\ "type" \in DOMAIN feed[i]
                             /\ feed[i].type \in CategoryTypes[ret.filter_option]}
             IN  ret.filtered = PickAt(feed, keep)

\* a feed of task_failed and deliverable_created events filtered by Errors:
\* only the task_failed entries are left
C11_Witness ==
    /\ Filtered
    /\ ret.filter_option = "Errors"
    /\ FeedOnDisk = <<Typed("task_failed"), Typed("deliverable_created"), Typed("task_failed")>>
    /\ ret.filtered = <<Typed("task_failed"), Typed("task_failed")>>

(***************************************************************************)
(* The list accessors: get_session_history, get_cron_jobs and              *)
(* get_deliverables have the shape of get_sessions.                        *)
(***************************************************************************)
\* get_session_history: history_file.get("messages", [])
get_session_history(history_file) ==
    IF Truthy(history_file)
    THEN IF IsDict(history_file)
         THEN [value |-> DictGet(history_file, "messages", <<>>), raised |-> FALSE]
         ELSE [value |-> <<>>, raised |-> TRUE]
    ELSE [value |-> <<>>, raised |-> FALSE]

\* get_cron_jobs: cron_file.get("jobs", [])
get_cron_jobs(cron_file) ==
    IF Truthy(cron_file)
    THEN IF IsDict(cron_file)
         THEN [value |-> DictGet(cron_file, "jobs", <<>>), raised |-> FALSE]
         ELSE [value |-> <<>>, raised |-> TRUE]
    ELSE [value |-> <<>>, raised |-> FALSE]

\* get_deliverables: deliverables_file.get("items", [])
get_deliverables(deliverables_file) ==
    IF Truthy(deliverables_file)
    THEN IF IsDict(deliverables_file)
         THEN [value |-> DictGet(deliverables_file, "items", <<>>), raised |-> FALSE]
         ELSE [value |-> <<>>, raised |-> TRUE]
    ELSE [value |-> <<>>, raised |-> FALSE]

\* s.get / j.get / item.get on the entries of the list raise on an entry that
\* is no JSON object
ListPage(r) == [value |-> r.value, raised |-> r.raised \/ ~AllDicts(r.value)]

sessions_of_page(sessions_file)     == ListPage(get_sessions(sessions_file))
jobs_of_page(cron_file)             == ListPage(get_cron_jobs(cron_file))
deliverables_of_page(deliverables_file) == ListPage(get_deliverables(deliverables_file))

\* what the accessor or page named op makes of the loaded value
Accessor(op, v) ==
    CASE op = "get_sessions"        -> get_sessions(v)
      [] op = "get_session_history" -> get_session_history(v)
      [] op = "get_cron_jobs"       -> get_cron_jobs(v)
      [] op = "get_deliverables"    -> get_deliverables(v)
      [] op = "page_sessions"       -> sessions_of_page(v)
      [] op = "page_cron"           -> jobs_of_page(v)
      [] op = "page_deliverables"   -> deliverables_of_page(v)

\* a call of a list accessor: the cached load, then the accessor's own code
call_accessor(op, filename) ==
    LET k     == JsonKey(filename)
        fresh == load_json_file(disk, WORKSPACE_PATH, filename)
        out   == Lookup(cache, k, fresh)
        r     == Accessor(op, out.value)
    IN  /\ cache' = Store(cache, k, out)
        /\ hist'  = Record(hist, k, out)
        /\ ret'   = [op |-> op, key |-> k, read |-> out.read,
                     loaded |-> out.value, value |-> r.value,
                     error |-> out.error, raised |-> r.raised,
                     before |-> hist[k], fresh |-> fresh.value]
        /\ UNCHANGED <<WORKSPACE_PATH, disk>>

\* an accessor called outside a modelled script run
CallAccessor(op, filename) == call_accessor(op, filename) /\ UNCHANGED pc

GetSessions     == CallAccessor("get_sessions", SessionsFile)
GetSessionHistory(session_key) ==
    CallAccessor("get_session_history", HistoryFile(session_key))
GetCronJobs     == CallAccessor("get_cron_jobs", CronFile)
GetDeliverables == CallAccessor("get_deliverables", DeliverablesFile)

\* get_subagent_tasks and get_activity_feed are the tail with a fixed limit
GetSubagentTasks == LoadJsonlFile(SubagentLog, SubagentLimit)
GetActivityFeed  == LoadJsonlFile(ActivityLog, ActivityLimit)

(***************************************************************************)
(* The accessor specification: one data file in any state, every accessor  *)
(* called in any order.                                                    *)
(***************************************************************************)
\* a well-formed document of each snapshot file
DocOf(filename) ==
    CASE filename = StatusFile       -> StatusDoc(1)
      [] filename = SessionsFile     -> SessionsDoc
      [] filename = CronFile         ->
             [t |-> "dict", jobs |-> << [t |-> "dict", name |-> "daily", enabled |-> TRUE] >>]
      [] filename = DeliverablesFile ->
             [t |-> "dict", items |-> << [t |-> "dict", title |-> "report"] >>]
      [] OTHER                       ->
             [t |-> "dict", messages |-> << [t |-> "dict", role |-> "user", content |-> "hi"] >>]

\* JSON values of every type: null, object, number, array, string
JsonValues(filename) ==
    {None, EmptyDict, DocOf(filename), NonDict, [t |-> "int", v |-> 0],
     List(<<>>), List(<<NonDict>>), Str(""), Str("x")}

SnapshotStates(filename) ==
    {Absent, Unreadable, Snapshot(BlankLine), Snapshot(MalformedLine),
     Snapshot(Undecodable)}
        \cup {Snapshot(JsonLine(v)) : v \in JsonValues(filename)}

LogStates ==
    {Absent, Unreadable} \cup
    {Log(ls) : ls \in {<<>>, <<BlankLine>>, <<MalformedLine>>, <<Undecodable>>,
                       <<JsonLine(Ev("spawned", "A"))>>,
                       <<JsonLine(Ev("spawned", "A")), MalformedLine>>,
                       <<JsonLine(List(<<NonDict>>))>>}}

FileStates(filename) ==
    IF filename \in JsonFileNames THEN SnapshotStates(filename) ELSE LogStates

InitAccessors ==
    /\ WORKSPACE_PATH = ""
    /\ \E filename \in FileNames : \E f \in FileStates(filename) :
           disk = [EmptyDisk EXCEPT !["local"][filename] = f]
    /\ cache = EmptyCache
    /\ hist = NoHistory
    /\ ret = Idle
    /\ pc = NotRunning

NextAccessors ==
    \/ GetAgentStatus
    \/ GetSessions
    \/ \E session_key \in SessionKeys : GetSessionHistory(session_key)
    \/ GetCronJobs
    \/ GetDeliverables
    \/ GetSubagentTasks
    \/ GetActivityFeed

SpecAccessors == InitAccessors /\ [][NextAccessors]_vars

(***************************************************************************)
(* Claims about failures at the loader boundary (SpecAccessors).           *)
(***************************************************************************)
AccessorOps == {"get_agent_status", "get_sessions", "get_session_history",
                "get_cron_jobs", "get_deliverables", "load_jsonl_file"}

\* the file the last accessor call is about, as it lies on disk
FileOfCall == disk["local"][ret.key.filename]

\* a sequence of the model (a Python list), as opposed to a tagged JSON value
IsList(v) == DOMAIN v = 1..Len(v)

\* C12: whatever the state of the data file, an accessor returns a valid value
\* (a status object, or a list) and lets no exception escape to the page.
C12_AccessorsAbsorbEverything ==
    ret.op \in AccessorOps =>
        /\ ~ret.raised
        /\ IF ret.op = "get_agent_status" THEN IsDict(ret.value) ELSE IsList(ret.value)

\* the last operation is a snapshot accessor whose load opened its file
SnapshotRead ==
    /\ ret.op \in AccessorOps \ {"load_jsonl_file"}
    /\ ret.read
    /\ FileOfCall.kind # "absent"

\* the text of the file decodes but json.load raises JSONDecodeError on it: an
\* empty file, a document cut short, any other malformed text
FailsToParse(f) == f.kind = "file" /\ f.content.tag \in {"blank", "malformed"}

C14_OtherFailureIsReported ==
    (SnapshotRead /\ FileOfCall.kind = "unreadable") =>
        /\ ret.error
        /\ ~ret.raised
        /\ ret.loaded = None

(***************************************************************************)
(* load_jsonl_file in two steps: the existence checks of get_data_path and *)
(* of line 76, then open() and the read.  The producer runs in between.    *)
(***************************************************************************)
\* the call up to `if full_path and full_path.exists()`: a cache hit and a
\* file found in no root end the call at once
TailCheck(filename, limit) ==
    LET k         == JsonlKey(filename, limit)
        full_path == get_data_path(disk, WORKSPACE_PATH, filename)
    IN  /\ pc = NotRunning
        /\ IF CacheHit(cache[k]) \/ full_path = NoPath
           THEN LoadJsonlFile(filename, limit)
           ELSE /\ pc' = [at |-> "open", filename |-> filename, limit |-> limit,
                          full_path |-> full_path,
                          checked |-> disk[full_path.root][filename]]
                /\ ret' = Idle
                /\ UNCHANGED <<WORKSPACE_PATH, disk, cache, hist>>

\* with open(full_path) ... return result, on the file as it is by now
TailOpen ==
    /\ pc.at = "open"
    /\ LET k   == JsonlKey(pc.filename, pc.limit)
           f   == disk[pc.full_path.root][pc.filename]
           r   == read_tail(f, pc.filename, pc.limit)
           out == [read |-> TRUE, value |-> r.value, error |-> r.error]
       IN  /\ cache' = Store(cache, k, out)
           /\ hist'  = Record(hist, k, out)
           /\ ret'   = [op |-> "load_jsonl_file", key |-> k, read |-> TRUE,
                        loaded |-> r.value, value |-> r.value,
                        error |-> r.error, raised |-> FALSE,
                        before |-> hist[k], fresh |-> r.value,
                        retained |-> r.retained,
                        checked |-> pc.checked, opened |-> f]
    /\ pc' = NotRunning
    /\ UNCHANGED <<WORKSPACE_PATH, disk>>

\* the producer cuts the sub-agent log down to its first n lines; a reader may
\* find line n itself cut short
ProducerTruncate(n, torn) ==
    LET f == disk[ProducerRoot][SubagentLog] IN
    /\ f.kind = "file"
    /\ IF torn THEN 1 <= n /\ n <= Len(f.content) ELSE n < Len(f.content)
    /\ ProducerPut(SubagentLog,
           Log(IF torn
               THEN Append(SubSeq(f.content, 1, n - 1), MalformedLine)
               ELSE SubSeq(f.content, 1, n)))

(***************************************************************************)
(* The race specification: the sub-agent log is tailed while the producer  *)
(* appends to it, truncates it and deletes it.                             *)
(***************************************************************************)
InitRace ==
    /\ WORKSPACE_PATH \in {"", "/ws"}
    /\ disk = EmptyDisk
    /\ cache = EmptyCache
    /\ hist = NoHistory
    /\ ret = Idle
    /\ pc = NotRunning

NextRace ==
    \/ TailCheck(SubagentLog, SubagentLimit)
    \/ TailOpen
    \/ \E line \in ProducerLines : ProducerAppend(line)
    \/ \E n \in 0..MaxLogLen, torn \in BOOLEAN : ProducerTruncate(n, torn)
    \/ ProducerDelete(SubagentLog)
    \/ pc = NotRunning /\ HomeRefresh

SpecRace == InitRace /\ [][NextRace]_vars

(***************************************************************************)
(* Claims about the race with the producer (SpecRace).                     *)
(***************************************************************************)
\* the call found the file, and opened it after the producer had changed it
Raced == ret.op = "load_jsonl_file" /\ "opened" \in DOMAIN ret /\ ret.opened # ret.checked

DeletedMeanwhile == Raced /\ ret.opened.kind = "absent"

TruncatedMeanwhile ==
    /\ Raced
    /\ ret.checked.kind = "file"
    /\ ret.opened.kind = "file"
    /\ Len(ret.opened.content) <= Len(ret.checked.content)

\* the records of the well-formed lines of a short log, in file order
RecordsOf(lines) ==
    LET good == {i \in 1..Len(lines) : lines[i].tag = "json"}
        kept == PickAt(lines, good)
    IN  [j \in 1..Len(kept) |-> kept[j].doc]

\* C15: when the producer deletes the log between the existence check and the
\* open, the call returns the empty sequence; when it truncates the log, the
\* call returns the records of what is left; in both cases nothing is raised
\* and no error is reported.
C15_RaceIsNoError ==
    /\ DeletedMeanwhile =>
           ret.value = <<>> /\ ~ret.raised /\ ~ret.error
    /\ TruncatedMeanwhile =>
           ret.value = RecordsOf(ret.opened.content) /\ ~ret.raised /\ ~ret.error

\* the log held a record at the check and was gone at the open
C15_Witness ==
    /\ DeletedMeanwhile
    /\ ret.checked = Log(<<JsonLine(Ev("spawned", "A"))>>)
    /\ ret.value = <<>>
    /\ ~ret.error

\* the log held a record at the check and a torn line at the open
C15_WitnessTruncated ==
    /\ TruncatedMeanwhile
    /\ ret.checked = Log(<<JsonLine(Ev("spawned", "A"))>>)
    /\ ret.opened = Log(<<MalformedLine>>)
    /\ ret.value = <<>>

(***************************************************************************)
(* get_data_path called on its own, while files come and go in both roots. *)
(***************************************************************************)
NoPrevious == [root |-> "no call yet", name |-> "None"]

\* Path.exists() of the two candidates, as the call finds them
Exists(filename) ==
    [root \in Roots |-> disk[root][filename].kind # "absent"]

GetDataPath(filename) ==
    /\ ret' = [op |-> "get_data_path", filename |-> filename,
               path |-> get_data_path(disk, WORKSPACE_PATH, filename),
               raised |-> FALSE,
               exists |-> Exists(filename),
               previous |-> IF ret.op = "get_data_path" /\ ret.filename = filename
                            THEN ret.path ELSE NoPrevious]
    /\ UNCHANGED <<WORKSPACE_PATH, disk, cache, hist, pc>>

PathFiles == {StatusFile, SubagentLog}

PathStates(filename) ==
    {Absent, Unreadable,
     IF filename \in JsonFileNames THEN Snapshot(JsonLine(EmptyDict)) ELSE Log(<<>>)}

\* a file is created, replaced or deleted in one of the roots; the outcome of
\* the last call stays as it was
ProducerTouch(root, filename, f) ==
    /\ disk[root][filename] # f
    /\ disk' = [disk EXCEPT ![root][filename] = f]
    /\ UNCHANGED <<WORKSPACE_PATH, cache, hist, ret, pc>>

InitPath ==
    /\ WORKSPACE_PATH \in {"", "/ws"}
    /\ disk = EmptyDisk
    /\ cache = EmptyCache
    /\ hist = NoHistory
    /\ ret = Idle
    /\ pc = NotRunning

NextPath ==
    \/ \E filename \in PathFiles : GetDataPath(filename)
    \/ \E root \in Roots, filename \in PathFiles :
           \E f \in PathStates(filename) : ProducerTouch(root, filename, f)

SpecPath == InitPath /\ [][NextPath]_vars

(***************************************************************************)
(* Claims about path resolution (SpecPath).                                *)
(***************************************************************************)
Resolved == ret.op = "get_data_path"

\* C16: the call returns the workspace candidate whenever a workspace root is
\* configured and the file exists there, otherwise the local candidate when
\* the file exists there, otherwise None, and it does not raise; the answer
\* follows the files as they are at the call, not an earlier answer.
C16_WorkspaceFirst ==
    Resolved =>
        /\ ~ret.raised
        /\ (WORKSPACE_PATH # "" /\ ret.exists["workspace"])
               => ret.path = [root |-> "workspace", name |-> ret.filename]
        /\ (~(WORKSPACE_PATH # "" /\ ret.exists["workspace"]) /\ ret.exists["local"])
               => ret.path = [root |-> "local", name |-> ret.filename]
        /\ (~(WORKSPACE_PATH # "" /\ ret.exists["workspace"]) /\ ~ret.exists["local"])
               => ret.path = NoPath

\* the file lies in both roots now, and the call before this one had found it
\* in the local root only: the workspace copy created in between is returned
C16_Witness ==
    /\ Resolved
    /\ ret.exists["workspace"] /\ ret.exists["local"]
    /\ ret.previous = [root |-> "local", name |-> ret.filename]
    /\ ret.path = [root |-> "workspace", name |-> ret.filename]

(***************************************************************************)
(* The remaining pages, and one run of _main_content: the six tabs are     *)
(* rendered in order, each page making its cached loads when it is its     *)
(* turn.  The producer and the clock go on between the pages.              *)
(***************************************************************************)
page_sessions     == call_accessor("page_sessions", SessionsFile)
page_cron         == call_accessor("page_cron", CronFile)
page_deliverables == call_accessor("page_deliverables", DeliverablesFile)

\* page_session_detail: the session list, then the history of the selected one
page_session_detail(session_key) ==
    LET kE == JsonKey(SessionsFile)
        kH == JsonKey(HistoryFile(session_key))
        oE == Lookup(cache, kE, load_json_file(disk, WORKSPACE_PATH, SessionsFile))
        c1 == Store(cache, kE, oE)
        h1 == Record(hist, kE, oE)
        oH == Lookup(c1, kH, load_json_file(disk, WORKSPACE_PATH, HistoryFile(session_key)))
        sessions == sessions_of_page(oE.value)
        messages == ListPage(get_session_history(oH.value))
    IN  /\ UNCHANGED <<WORKSPACE_PATH, disk>>
        /\ IF sessions.raised
           THEN /\ cache' = c1
                /\ hist'  = h1
                /\ ret'   = [op |-> "page_session_detail", raised |-> TRUE,
                             key |-> kE, read |-> oE.read, loaded |-> oE.value]
           ELSE /\ cache' = Store(c1, kH, oH)
                /\ hist'  = Record(h1, kH, oH)
                /\ ret'   = [op |-> "page_session_detail", raised |-> messages.raised,
                             key |-> kE, read |-> oE.read, loaded |-> oE.value]

\* what a run has been given so far for the two keys it reads twice
NothingSeen == [sessions |-> None, activity |-> <<>>]

\* main: an exception of a page ends the run in the error boundary
After(tab, page, seen, elapsed) ==
    IF ret'.raised THEN NotRunning
    ELSE [at |-> tab, page |-> page, seen |-> seen, elapsed |-> elapsed]

\* with tabs[0]: page_home(), the first page of a run; st.session_state.page is
\* whatever the last click left
TabHome ==
    /\ pc.at = "none"
    /\ page_home
    /\ \E page \in {"sessions", "session_detail"} :
           pc' = After("chat", page,
                       [sessions |-> Lookup(cache, JsonKey(SessionsFile),
                                        load_json_file(disk, WORKSPACE_PATH, SessionsFile)).value,
                        activity |-> Lookup(cache, JsonlKey(ActivityLog, ActivityLimit),
                                        load_jsonl_file(disk, WORKSPACE_PATH, ActivityLog,
                                                        ActivityLimit)).value],
                       0)

\* with tabs[1]: page_session_detail() or page_sessions()
TabChat ==
    /\ pc.at = "chat"
    /\ IF pc.page = "session_detail" THEN page_session_detail("main") ELSE page_sessions
    /\ pc' = After("agents", pc.page, pc.seen, pc.elapsed)

\* with tabs[2]: page_subagents()
TabAgents ==
    /\ pc.at = "agents"
    /\ page_subagents
    /\ pc' = After("jobs", pc.page, pc.seen, pc.elapsed)

\* with tabs[3]: page_cron()
TabJobs ==
    /\ pc.at = "jobs"
    /\ page_cron
    /\ pc' = After("files", pc.page, pc.seen, pc.elapsed)

\* with tabs[4]: page_deliverables()
TabFiles ==
    /\ pc.at = "files"
    /\ page_deliverables
    /\ pc' = After("log", pc.page, pc.seen, pc.elapsed)

\* with tabs[5]: page_activity(), the last page of the run
TabLog ==
    /\ pc.at = "log"
    /\ \E filter_option \in {"All", "Errors"} : page_activity(filter_option)
    /\ pc' = After("done", pc.page, pc.seen, pc.elapsed)

\* the producer rewrites the session list and appends to the activity feed
SessionsDocLater ==
    [t |-> "dict",
     sessions |-> << [t |-> "dict", key |-> "main", status |-> "idle"] >>]

ProducerWriteSessions ==
    \E d \in {SessionsDoc, SessionsDocLater} :
        ProducerPut(SessionsFile, Snapshot(JsonLine(d)))

ProducerAppendActivity ==
    LET f     == disk[ProducerRoot][ActivityLog]
        lines == IF f.kind = "file" THEN f.content ELSE <<>>
    IN  /\ Len(lines) < MaxLogLen
        /\ ProducerPut(ActivityLog, Log(Append(lines, JsonLine(Typed("task_failed")))))

\* a second passes before the run starts, entries and reads growing older
TickBeforeRun == pc.at = "none" /\ Tick

\* a second passes between two pages of a run; a run takes MaxRunSeconds at most
TickInRun ==
    /\ pc.at \in {"chat", "agents", "jobs", "files", "log"}
    /\ pc.elapsed < MaxRunSeconds
    /\ tick
    /\ pc' = [pc EXCEPT !.elapsed = @ + 1]

(***************************************************************************)
(* The render specification: one script run against the producer and the   *)
(* clock.  It starts where an earlier run has just left the cache: every   *)
(* key the pages read is held as that run loaded it.                       *)
(***************************************************************************)
RenderDisk ==
    [EmptyDisk EXCEPT !["workspace"][SessionsFile] = Snapshot(JsonLine(SessionsDoc))]

\* the loader call behind a key, on the files of d
LoadOf(d, k) ==
    IF k.func = "load_json_file"
    THEN load_json_file(d, "/ws", k.filename)
    ELSE [value |-> load_jsonl_file(d, "/ws", k.filename, k.limit).value,
          error |-> load_jsonl_file(d, "/ws", k.filename, k.limit).error]

\* the keys the six pages read
RunKeys ==
    {JsonKey(StatusFile), JsonKey(SessionsFile), JsonKey(HistoryFile("main")),
     JsonKey(CronFile), JsonKey(DeliverablesFile),
     JsonlKey(SubagentLog, SubagentLimit), JsonlKey(ActivityLog, ActivityLimit)}

InitRender ==
    /\ WORKSPACE_PATH = "/ws"
    /\ disk = RenderDisk
    /\ cache = [k \in CacheKeys |->
                   IF k \in RunKeys THEN Entry(LoadOf(RenderDisk, k)) ELSE NoEntry]
    /\ hist = [k \in CacheKeys |->
                   IF k \in RunKeys THEN Loaded(LoadOf(RenderDisk, k).value)
                   ELSE NeverLoaded]
    /\ ret = Idle
    /\ pc = NotRunning

NextRender ==
    \/ TabHome
    \/ TabChat
    \/ TabAgents
    \/ TabJobs
    \/ TabFiles
    \/ TabLog
    \/ ProducerWriteSessions
    \/ ProducerAppendActivity
    \/ TickBeforeRun
    \/ TickInRun

SpecRender == InitRender /\ [][NextRender]_vars

(***************************************************************************)
(* Claims about one script run (SpecRender).                               *)
(***************************************************************************)
\* the Chat tab of the run has just been rendered
ChatRendered ==
    /\ ret.op \in {"page_sessions", "page_session_detail"}
    /\ pc.at = "agents"

\* the Log tab of the run has just been rendered
LogRendered == ret.op = "page_activity" /\ pc.at = "done"

\* C17: within one run of _main_content the second read of a key is given the
\* value the first read was given: the session list in the Chat tab is the one
\* of the Home tab, the activity feed in the Log tab is the one of the Home tab.
C17_SameValueWithinRun ==
    /\ ChatRendered => ret.loaded = pc.seen.sessions
    /\ LogRendered  => ret.loaded = pc.seen.activity

(***************************************************************************)
(* Claims about the files themselves (Spec).                               *)
(***************************************************************************)
\* a step of the producer
ProducerStep ==
    \/ ProducerWriteStatus
    \/ ProducerTornStatus
    \/ \E f \in {StatusFile, SubagentLog} : ProducerDelete(f)
    \/ \E line \in ProducerLines : ProducerAppend(line)

\* C18: no operation of the dashboard creates, writes, truncates or deletes a
\* data file: every step that changes the state of a file is a step of the
\* producer, and a step that leaves an outcome of a dashboard operation leaves
\* every file as it was.
C18_OnlyProducerWrites ==
    [][/\ disk' # disk => ProducerStep
       /\ ret'.op # "none" => disk' = disk]_vars

\* the Agents tab has read the log the producer wrote, and the log is still
\* there
C18_Witness ==
    /\ ret.op = "page_subagents"
    /\ ret.read
    /\ disk[ProducerRoot][SubagentLog].kind = "file"
    /\ ret.tasks # <<>>

(***************************************************************************)
(* The window specification: logs about as long as the fixed tail windows  *)
(* of get_subagent_tasks (50) and get_activity_feed (100).                 *)
(***************************************************************************)
Repeat(x, n) == [i \in 1..n |-> x]

LogTails == {<<>>, <<BlankLine>>, <<MalformedLine>>}

\* up to MaxExtra old lines, then limit - 1 or limit newer lines, then a tail
LongLogs(old, new, limit) ==
    {Repeat(old, a) \o Repeat(new, b) \o tail :
        a \in 0..MaxExtra, b \in {limit - 1, limit}, tail \in LogTails}

LongTasks ==
    LongLogs(JsonLine(Ev("spawned", "B")), JsonLine(Ev("spawned", "A")), SubagentLimit)
LongFeeds ==
    LongLogs(JsonLine(Typed("error_occurred")), JsonLine(Typed("task_started")),
             ActivityLimit)

\* one of the two logs is long, the other holds one line
InitWindow ==
    /\ WORKSPACE_PATH = ""
    /\ \E logs \in (LongTasks \X {<<JsonLine(Typed("task_started"))>>})
                       \cup ({<<JsonLine(Ev("spawned", "A"))>>} \X LongFeeds) :
           disk = [EmptyDisk EXCEPT !["local"][SubagentLog] = Log(logs[1]),
                                    !["local"][ActivityLog] = Log(logs[2])]
    /\ cache = EmptyCache
    /\ hist = NoHistory
    /\ ret = Idle
    /\ pc = NotRunning

NextWindow == GetSubagentTasks \/ GetActivityFeed \/ PageSubagents

SpecWindow == InitWindow /\ [][NextWindow]_vars

(***************************************************************************)
(* Claims about the fixed windows (SpecWindow).                            *)
(***************************************************************************)
\* the records of the well-formed lines among the last n physical lines
LastRecords(lines, n) ==
    LET idx  == {i \in LastIdx(lines, n) : lines[i].tag = "json"}
        kept == PickAt(lines, idx)
    IN  [j \in 1..Len(kept) |-> kept[j].doc]

TasksLines == disk["local"][SubagentLog].content
FeedLines100 == disk["local"][ActivityLog].content

\* C19: get_subagent_tasks returns at most 50 records, get_activity_feed at
\* most 100, in both cases the records of lines of the file in file order, all
\* of them among the last 50 (100) physical lines; the running keys the Agents
\* tab derives are keys of events of the last 50 physical lines.
C19_FixedWindows ==
    /\ (ret.op = "load_jsonl_file" /\ ret.key.filename = SubagentLog) =>
           /\ Len(ret.value) <= 50
           /\ ret.value = LastRecords(TasksLines, 50)
    /\ (ret.op = "load_jsonl_file" /\ ret.key.filename = ActivityLog) =>
           /\ Len(ret.value) <= 100
           /\ ret.value = LastRecords(FeedLines100, 100)
    /\ ret.op = "page_subagents" =>
           /\ ret.tasks = LastRecords(TasksLines, 50)
           /\ \A key \in ret.running_keys :
                  \E i \in LastIdx(TasksLines, 50) :
                      /\ TasksLines[i].tag = "json"
                      /\ TasksLines[i].doc = Ev("spawned", key)

\* a sub-agent log of 51 well-formed lines: 50 records come back and the
\* first line, the spawn of B, is not among them
C19_Witness ==
    /\ ret.op = "page_subagents"
    /\ Len(TasksLines) = 51
    /\ TasksLines[1] = JsonLine(Ev("spawned", "B"))
    /\ Len(ret.tasks) = 50
    /\ ret.running_keys = {"A"}

(***************************************************************************)
(* Claims about recovery from a failed read (Spec).                        *)
(***************************************************************************)
StatusCalled == ret.op = "get_agent_status"

\* the last read of status.json before this call found no document: the file
\* was absent or torn, and None was stored
FailedBefore == StatusCalled /\ ret.before.loaded /\ ret.before.value = None

\* the producer has left a complete status.json in place
StatusNow == disk[ProducerRoot][StatusFile]

\* C20: after a read that found status.json absent or malformed, once the
\* producer has left a well-formed file in place, the first call made TTL or
\* more after that read returns the file's document, and so does the first
\* call after the cache was cleared; a stored None is served only while less
\* than TTL has passed since it was read.
C20_FailedReadIsTransient ==
    /\ (FailedBefore /\ ret.before.since >= TTL /\ HoldsDoc(StatusNow))
           => ret.loaded = StatusNow.content.doc /\ ret.value = StatusNow.content.doc
    /\ (StatusCalled /\ ret.before.cleared /\ HoldsDoc(StatusNow))
           => ret.loaded = StatusNow.content.doc
    /\ (StatusCalled /\ ~ret.read /\ ret.loaded = None)
           => ret.before.loaded /\ ret.before.since < TTL

\* None was read TTL ago or longer, the status document is on disk by now, and
\* the call has returned it
C20_Witness ==
    /\ FailedBefore
    /\ ret.before.since >= TTL
    /\ HoldsDoc(StatusNow)
    /\ ret.read
    /\ ret.value = StatusNow.content.doc
    /\ ret.value # DefaultStatus

(***************************************************************************)
(* The Refresh buttons of the Jobs, Files and Log tabs: st.rerun() and     *)
(* nothing else.                                                           *)
(***************************************************************************)
Rerun(button) ==
    /\ ret' = [op |-> "rerun", button |-> button, dropped |-> {}]
    /\ UNCHANGED <<WORKSPACE_PATH, disk, cache, hist, pc>>

\* page_cron: if st.button("Refresh", key="cron_refresh"): st.rerun()
JobsRefresh  == Rerun("cron_refresh")

\* page_deliverables: if st.button("Refresh", key="deliverables_refresh"): st.rerun()
FilesRefresh == Rerun("deliverables_refresh")

\* page_activity: if st.button("Refresh", key="activity_refresh"): st.rerun()
LogRefresh   == Rerun("activity_refresh")

(***************************************************************************)
(* The refresh specification: the cache specification with every manual    *)
(* control of the dashboard.                                               *)
(***************************************************************************)
NextRefresh ==
    \/ Next
    \/ JobsRefresh
    \/ FilesRefresh
    \/ LogRefresh

SpecRefresh == Init /\ [][NextRefresh]_vars

(***************************************************************************)
(* Claims about the manual controls (SpecRefresh).                         *)
(***************************************************************************)
\* a Refresh or Retry button has just been pressed
Pressed == ret.op \in {"clear", "rerun"}

\* C21: once any manual control (home Refresh, Jobs Refresh, Files Refresh,
\* Log Refresh, Retry) has been pressed no cache entry is left, so the run that
\* follows reads every file again.
C21_EveryControlClears ==
    Pressed => \A k \in CacheKeys : ~cache[k].present

(***************************************************************************)
(* Claims about the lists of the Agents tab (SpecPages).                   *)
(***************************************************************************)
IsEvent(t, e) == "event" \in DOMAIN t /\ t.event = e

\* the events with every spawn of a key after its first one left out
SpawnedOnce(tasks) ==
    PickAt(tasks, {i \in 1..Len(tasks) :
                      ~(/\ IsEvent(tasks[i], "spawned")
                        /\ \E j \in 1..(i - 1) :
                               /\ IsEvent(tasks[j], "spawned")
                               /\ KeyOf(tasks[j]) = KeyOf(tasks[i]))})

\* C22: the completed list is the events with event = completed, in file
\* order; the running list is the events with event = spawned whose key is in
\* the running key set, in file order; the running key set (and so the number
\* of distinct running keys) is the one the events give with each key spawned
\* once only.
C22_ListsOfEvents ==
    Reconciled =>
        LET tasks == ret.tasks IN
        /\ ret.completed
              = PickAt(tasks, {i \in 1..Len(tasks) : IsEvent(tasks[i], "completed")})
        /\ ret.running
              = PickAt(tasks, {i \in 1..Len(tasks) :
                                  /\ IsEvent(tasks[i], "spawned")
                                  /\ KeyOf(tasks[i]) \in ret.running_keys})
        /\ ret.running_keys
              = SpawnedSet(SpawnedOnce(tasks)) \ CompletedSet(SpawnedOnce(tasks))
        /\ Cardinality(ret.running_keys)
              = Cardinality(SpawnedSet(SpawnedOnce(tasks)) \ CompletedSet(SpawnedOnce(tasks)))

\* A is spawned twice and B completed: both spawns of A are listed, A is in
\* the running key set once
C22_Witness ==
    /\ Reconciled
    /\ ret.tasks = <<Ev("spawned", "A"), Ev("completed", "B"), Ev("spawned", "A")>>
    /\ ret.running = <<Ev("spawned", "A"), Ev("spawned", "A")>>
    /\ ret.running_keys = {"A"}
    /\ ret.completed = <<Ev("completed", "B")>>

\* the events in the order p
Permuted(tasks, p) == [i \in 1..Len(tasks) |-> tasks[p[i]]]

\* C23: a key with a completed event in the window is not in the running key
\* set, wherever its spawned events lie, and the events in any other order
\* give the same running key set.
C23_OrderInsensitive ==
    Reconciled =>
        /\ \A k \in KeyValues :
               HasEvent(ret.tasks, "completed", k) => k \notin ret.running_keys
        /\ \A p \in Permutations(1..Len(ret.tasks)) :
               running_keys(Permuted(ret.tasks, p)) = ret.running_keys

\* A is completed and spawned again after that: A is not running
C23_Witness ==
    /\ Reconciled
    /\ ret.tasks = <<Ev("spawned", "B"), Ev("completed", "A"), Ev("spawned", "A")>>
    /\ ret.running_keys = {"B"}

=============================================================================
